---------------------------- MODULE Spec2Model ----------------------------
(***************************************************************************)
(* Model of the employee report generator (src/main.py).                   *)
(*                                                                         *)
(* A Python str is a sequence of one-character strings, so that strip,     *)
(* split, float and the f-string formatting are computed character by      *)
(* character.  A dict is a function from its keys to its values.  A field  *)
(* value of a record is [num |-> n] for a number and [str |-> s] for a     *)
(* string.                                                                 *)
(***************************************************************************)
EXTENDS Integers, Sequences, FiniteSets, TLC

VARIABLES
    files,          \* args.files: the paths given on the command line
    fs,             \* the file system: path -> [exists, text]
    report_type,    \* args.report
    pc,             \* position of main
    idx,            \* index of the running for loop of main
    all_employees,  \* main's all_employees
    parsed,         \* the paths handed to parse_csv_to_dicts so far
    table,          \* headers, data of the last parse_csv_to_dicts call
    executed,       \* the report functions called so far
    gen,            \* the locals of generate_payout_report at its return
    stdout,         \* the strings printed so far
    ret             \* <<>> while main runs, then <<its return value>>

vars == <<files, fs, report_type, pc, idx, all_employees, parsed, table,
          executed, gen, stdout, ret>>

-----------------------------------------------------------------------------
(* Strings *)

NL == "\n"
COMMA == ","
SP == " "

\* the characters str.strip() removes that occur in the inputs
Whitespace == {SP, NL}

RECURSIVE lstrip(_)
lstrip(s) ==
    IF s # <<>> /\ Head(s) \in Whitespace THEN lstrip(Tail(s)) ELSE s

RECURSIVE rstrip(_)
rstrip(s) ==
    IF s # <<>> /\ s[Len(s)] \in Whitespace
    THEN rstrip(SubSeq(s, 1, Len(s) - 1))
    ELSE s

strip(s) == rstrip(lstrip(s))

\* str.split(sep) with a one-character separator: the pieces between the
\* separators, one more piece than there are separators, so never the
\* empty list
split(s, sep) ==
    LET at == {i \in 1..Len(s) : s[i] = sep}
        \* the position of the k-th separator; 0 and Len(s) + 1 bracket them
        sepAt(k) ==
            IF k = 0 THEN 0
            ELSE IF k > Cardinality(at) THEN Len(s) + 1
            ELSE CHOOSE i \in at : Cardinality({j \in at : j < i}) = k - 1
    IN  [k \in 1..(Cardinality(at) + 1) |->
            SubSeq(s, sepAt(k - 1) + 1, sepAt(k) - 1)]

\* sep.join(parts)
RECURSIVE join(_, _)
join(parts, sep) ==
    IF parts = <<>> THEN <<>>
    ELSE IF Len(parts) = 1 THEN parts[1]
    ELSE parts[1] \o <<sep>> \o join(Tail(parts), sep)

DigitVal ==
    [c \in {"0", "1", "2", "3", "4", "5", "6", "7", "8", "9"} |->
        CASE c = "0" -> 0 [] c = "1" -> 1 [] c = "2" -> 2 [] c = "3" -> 3
          [] c = "4" -> 4 [] c = "5" -> 5 [] c = "6" -> 6 [] c = "7" -> 7
          [] c = "8" -> 8 [] c = "9" -> 9]

Digits == DOMAIN DigitVal

RECURSIVE decimal(_)
decimal(s) ==
    IF s = <<>> THEN 0
    ELSE 10 * decimal(SubSeq(s, 1, Len(s) - 1)) + DigitVal[s[Len(s)]]

\* float(value): surrounding whitespace is ignored, then a run of decimal
\* digits is its value; anything else over the input alphabet (the empty
\* string, letters) raises ValueError.  The values are whole numbers, on
\* which the float arithmetic and the .0f formatting of the report are exact
floatOk(value) ==
    LET t == strip(value)
    IN  t # <<>> /\ \A i \in 1..Len(t) : t[i] \in Digits

float(value) == decimal(strip(value))

-----------------------------------------------------------------------------
(* Field names *)

HOURLY_RATE == <<"h", "o", "u", "r", "l", "y", "_", "r", "a", "t", "e">>
RATE == <<"r", "a", "t", "e">>
SALARY == <<"s", "a", "l", "a", "r", "y">>
HOURS_WORKED == <<"h", "o", "u", "r", "s", "_", "w", "o", "r", "k", "e", "d">>
DEPARTMENT == <<"d", "e", "p", "a", "r", "t", "m", "e", "n", "t">>
NAME == <<"n", "a", "m", "e">>
UNKNOWN == <<"U", "n", "k", "n", "o", "w", "n">>

-----------------------------------------------------------------------------
(* Tabular parser *)

\* the rows of read_csv: every non-empty line after the first, split on ","
RECURSIVE dataRows(_)
dataRows(lines) ==
    IF lines = <<>> THEN <<>>
    ELSE IF Head(lines) # <<>>
         THEN <<split(Head(lines), COMMA)>> \o dataRows(Tail(lines))
         ELSE dataRows(Tail(lines))

read_csv(text) ==
    LET content == split(strip(text), NL)
    IN  IF content = <<>>
        THEN [headers |-> <<>>, data |-> <<>>]
        ELSE [headers |-> split(content[1], COMMA),
              data |-> dataRows(Tail(content))]

\* a normalization that forgets the spelling "salary"
normalize_header_no_salary(header) ==
    IF header \in {HOURLY_RATE, RATE} THEN HOURLY_RATE ELSE header

normalize_header(header) ==
    IF header \in {HOURLY_RATE, RATE, SALARY} THEN HOURLY_RATE ELSE header

normalized_headers(headers) ==
    [i \in 1..Len(headers) |-> normalize_header(headers[i])]

\* a conversion that keeps the text it could not convert
cell_keeps_text(key, value) ==
    IF key \in {HOURS_WORKED, HOURLY_RATE}
    THEN IF floatOk(value) THEN [num |-> float(value)] ELSE [str |-> value]
    ELSE [str |-> value]

\* the value stored for one cell of a row
cell(key, value) ==
    IF key \in {HOURS_WORKED, HOURLY_RATE}
    THEN IF floatOk(value) THEN [num |-> float(value)] ELSE [num |-> 0]
    ELSE [str |-> value]

\* a dict that keeps the first value of a repeated key
RECURSIVE employee_keeps_first(_, _, _)
employee_keeps_first(nh, row, n) ==
    IF n = 0 THEN <<>>
    ELSE LET e == employee_keeps_first(nh, row, n - 1)
         IN  [k \in (DOMAIN e) \cup {nh[n]} |->
                 IF k \in DOMAIN e THEN e[k] ELSE cell(nh[n], row[n])]

\* the dict built from the first n cells of a row; a later cell with the
\* same key overwrites the earlier one
RECURSIVE employee(_, _, _)
employee(nh, row, n) ==
    IF n = 0 THEN <<>>
    ELSE LET e == employee(nh, row, n - 1)
         IN  [k \in (DOMAIN e) \cup {nh[n]} |->
                 IF k = nh[n] THEN cell(nh[n], row[n]) ELSE e[k]]

\* a filter that lets short rows through
width_at_most(row, headers) == Len(row) <= Len(headers)

\* the row is skipped (continue) unless this holds
widthMatches(row, headers) == Len(row) = Len(headers)

RECURSIVE records(_, _)
records(headers, data) ==
    IF data = <<>> THEN <<>>
    ELSE IF widthMatches(Head(data), headers)
         THEN <<employee(normalized_headers(headers), Head(data),
                         Len(Head(data)))>>
              \o records(headers, Tail(data))
         ELSE records(headers, Tail(data))

parse_csv_to_dicts(text) ==
    LET t == read_csv(text)
    IN  IF t.headers = <<>> \/ t.data = <<>>
        THEN <<>>
        ELSE records(t.headers, t.data)

-----------------------------------------------------------------------------
(* Formatting *)

\* ord(c), the code point: the ASCII characters 32 (space) to 95 and the
\* lower-case letters 97 to 122, each in code point order, and the newline
Ascii32 ==
    <<" ", "!", "\"", "#", "$", "%", "&", "'", "(", ")", "*", "+", ",",
      "-", ".", "/", "0", "1", "2", "3", "4", "5", "6", "7", "8", "9", ":",
      ";", "<", "=", ">", "?", "@", "A", "B", "C", "D", "E", "F", "G", "H",
      "I", "J", "K", "L", "M", "N", "O", "P", "Q", "R", "S", "T", "U", "V",
      "W", "X", "Y", "Z", "[", "\\", "]", "^", "_">>

Ascii97 ==
    <<"a", "b", "c", "d", "e", "f", "g", "h", "i", "j", "k", "l", "m", "n",
      "o", "p", "q", "r", "s", "t", "u", "v", "w", "x", "y", "z">>

ord(c) ==
    IF c = NL THEN 10
    ELSE IF \E i \in 1..Len(Ascii97) : Ascii97[i] = c
         THEN 96 + CHOOSE i \in 1..Len(Ascii97) : Ascii97[i] = c
         ELSE 31 + CHOOSE i \in 1..Len(Ascii32) : Ascii32[i] = c

\* Python's < on str: by code point, a proper prefix first
RECURSIVE strLess(_, _)
strLess(a, b) ==
    IF b = <<>> THEN FALSE
    ELSE IF a = <<>> THEN TRUE
    ELSE IF Head(a) = Head(b) THEN strLess(Tail(a), Tail(b))
    ELSE ord(Head(a)) < ord(Head(b))

spaces(n) == [i \in 1..n |-> SP]

\* format(s, "<w>") for a str left-aligned, and ">w" right-aligned: padded to
\* the width, never cut
padRight(s, w) == IF Len(s) >= w THEN s ELSE s \o spaces(w - Len(s))
padLeft(s, w) == IF Len(s) >= w THEN s ELSE spaces(w - Len(s)) \o s

DigitChar == <<"0", "1", "2", "3", "4", "5", "6", "7", "8", "9">>

\* format(n, ".0f") of a number without fraction, n >= 0
RECURSIVE fmt0f(_)
fmt0f(n) ==
    IF n < 10 THEN <<DigitChar[n + 1]>>
    ELSE fmt0f(n \div 10) \o <<DigitChar[(n % 10) + 1]>>

NO_DATA ==
    <<"N", "o", " ", "d", "a", "t", "a", " ", "a", "v", "a", "i", "l", "a",
      "b", "l", "e", " ", "f", "o", "r", " ", "r", "e", "p", "o", "r", "t",
      ".">>

ROW_PREFIX ==
    <<"-", "-", "-", "-", "-", "-", "-", "-", "-", "-", "-", "-", "-", "-",
      " ">>

TOTAL_HOURS ==
    <<NL, "T", "o", "t", "a", "l", " ", "h", "o", "u", "r", "s", ":", " ">>

TOTAL_PAYOUT ==
    <<"T", "o", "t", "a", "l", " ", "p", "a", "y", "o", "u", "t", ":", " ",
      "$">>

HOURS ==
    <<"h", "o", "u", "r", "s">>

PAYOUT ==
    <<"p", "a", "y", "o", "u", "t">>

headerLine ==
    padRight(NAME, 30) \o <<SP>> \o padLeft(HOURS, 8) \o <<SP>>
        \o padLeft(RATE, 8) \o <<SP>> \o padLeft(PAYOUT, 10)

-----------------------------------------------------------------------------
(* Report engine *)

has(e, key) == key \in DOMAIN e

\* employee.get('department', 'Unknown') and the other three reads
deptOf(e) == IF has(e, DEPARTMENT) THEN e[DEPARTMENT].str ELSE UNKNOWN
nameOf(e) == IF has(e, NAME) THEN e[NAME].str ELSE UNKNOWN
hoursOf(e) == IF has(e, HOURS_WORKED) THEN e[HOURS_WORKED].num ELSE 0
rateOf(e) == IF has(e, HOURLY_RATE) THEN e[HOURLY_RATE].num ELSE 0
payoutOf(e) == hoursOf(e) * rateOf(e)

\* the dict departments after the grouping loop over the first n records
RECURSIVE departments(_, _)
departments(employees_data, n) ==
    IF n = 0 THEN <<>>
    ELSE LET d == departments(employees_data, n - 1)
             e == employees_data[n]
             dept == deptOf(e)
         IN  [k \in (DOMAIN d) \cup {dept} |->
                 IF k # dept THEN d[k]
                 ELSE IF dept \in DOMAIN d THEN Append(d[dept], e)
                 ELSE <<e>>]

\* the keys of sorted(departments.items()), smallest first
RECURSIVE sortedKeys(_)
sortedKeys(keys) ==
    IF keys = {} THEN <<>>
    ELSE LET m == CHOOSE x \in keys : \A y \in keys \ {x} : strLess(x, y)
         IN  <<m>> \o sortedKeys(keys \ {m})

\* the keys in the order the grouping loop met them, not sorted
RECURSIVE firstSeen(_, _)
firstSeen(employees_data, n) ==
    IF n = 0 THEN <<>>
    ELSE LET o == firstSeen(employees_data, n - 1)
             dept == deptOf(employees_data[n])
         IN  IF \E i \in 1..Len(o) : o[i] = dept THEN o ELSE Append(o, dept)

deptOrder_unsorted(employees_data) ==
    firstSeen(employees_data, Len(employees_data))

deptOrder(employees_data) ==
    sortedKeys(DOMAIN departments(employees_data, Len(employees_data)))

employeeLine(e) ==
    ROW_PREFIX \o padRight(nameOf(e), 20) \o <<SP>>
        \o padLeft(fmt0f(hoursOf(e)), 8) \o <<SP>>
        \o padLeft(fmt0f(rateOf(e)), 8) \o <<SP, "$">>
        \o padLeft(fmt0f(payoutOf(e)), 9)

subtotalLine(hours, payout) ==
    padRight(<<SP>>, 45) \o <<SP>> \o padLeft(fmt0f(hours), 8) \o <<SP>>
        \o padRight(<<SP>>, 8) \o <<SP, "$">> \o padLeft(fmt0f(payout), 8)

\* dept_total_hours and dept_total_payout after the employees of one
\* department
RECURSIVE deptHours(_)
deptHours(employees) ==
    IF employees = <<>> THEN 0
    ELSE deptHours(SubSeq(employees, 1, Len(employees) - 1))
         + hoursOf(employees[Len(employees)])

RECURSIVE deptPayout(_)
deptPayout(employees) ==
    IF employees = <<>> THEN 0
    ELSE deptPayout(SubSeq(employees, 1, Len(employees) - 1))
         + payoutOf(employees[Len(employees)])

\* one pass of the loop over the sorted departments
section(dept, employees) ==
    LET h == deptHours(employees)
        p == deptPayout(employees)
    IN  [dept |-> dept,
         employees |-> employees,
         dept_total_hours |-> h,
         dept_total_payout |-> p,
         lines |-> <<dept>>
                   \o [i \in 1..Len(employees) |-> employeeLine(employees[i])]
                   \o <<subtotalLine(h, p)>>]

sections(employees_data) ==
    LET d == departments(employees_data, Len(employees_data))
        order == deptOrder(employees_data)
    IN  [i \in 1..Len(order) |-> section(order[i], d[order[i]])]

\* grand_total_hours and grand_total_payout after the first n departments
RECURSIVE grandHours(_, _)
grandHours(secs, n) ==
    IF n = 0 THEN 0 ELSE grandHours(secs, n - 1) + secs[n].dept_total_hours

\* a grand total that is assigned where it should be added to
grandPayout_assigned(secs, n) ==
    IF n = 0 THEN 0 ELSE secs[n].dept_total_payout

RECURSIVE grandPayout(_, _)
grandPayout(secs, n) ==
    IF n = 0 THEN 0 ELSE grandPayout(secs, n - 1) + secs[n].dept_total_payout

RECURSIVE sectionLines(_, _)
sectionLines(secs, n) ==
    IF n = 0 THEN <<>> ELSE sectionLines(secs, n - 1) \o secs[n].lines

\* a report without the check for no records
payout_report_unguarded(employees_data) ==
    LET secs == sections(employees_data)
        gh == grandHours(secs, Len(secs))
        gp == grandPayout(secs, Len(secs))
        report_lines ==
            <<headerLine>> \o sectionLines(secs, Len(secs))
                \o <<TOTAL_HOURS \o fmt0f(gh), TOTAL_PAYOUT \o fmt0f(gp)>>
    IN  [report |-> join(report_lines, NL),
         report_lines |-> report_lines,
         sections |-> secs,
         grand_total_hours |-> gh,
         grand_total_payout |-> gp]

\* generate_payout_report with its locals at the return
payout_report(employees_data) ==
    IF employees_data = <<>>
    THEN [report |-> NO_DATA, report_lines |-> <<>>, sections |-> <<>>,
          grand_total_hours |-> 0, grand_total_payout |-> 0]
    ELSE LET secs == sections(employees_data)
             gh == grandHours(secs, Len(secs))
             gp == grandPayout(secs, Len(secs))
             report_lines ==
                 <<headerLine>> \o sectionLines(secs, Len(secs))
                     \o <<TOTAL_HOURS \o fmt0f(gh), TOTAL_PAYOUT \o fmt0f(gp)>>
         IN  [report |-> join(report_lines, NL),
              report_lines |-> report_lines,
              sections |-> secs,
              grand_total_hours |-> gh,
              grand_total_payout |-> gp]

generate_payout_report(employees_data) == payout_report(employees_data).report

\* the registry of get_report_generator
report_generators == [k \in {PAYOUT} |-> "generate_payout_report"]

UNKNOWN_REPORT ==
    <<"U", "n", "k", "n", "o", "w", "n", " ", "r", "e", "p", "o", "r", "t", " ", "t", "y", "p", "e", ":", " ">>

\* a lookup that falls back to the payout report
get_report_generator_fallback(name) ==
    [raised |-> "", fn |-> "generate_payout_report"]

\* get_report_generator: the function's name, or the ValueError raised
get_report_generator(name) ==
    IF name \notin DOMAIN report_generators
    THEN [raised |-> "ValueError", message |-> UNKNOWN_REPORT \o name]
    ELSE [raised |-> "", fn |-> report_generators[name]]

-----------------------------------------------------------------------------
(* main *)

ERROR == <<"E", "r", "r", "o", "r", ":", " ">>
FILE_NOT_FOUND == <<"F", "i", "l", "e", " ", "n", "o", "t", " ", "f", "o", "u", "n", "d", ":", " ">>

isfile(path) == fs[path].exists

\* for file_path in args.files: if not os.path.isfile(file_path)
CheckFile ==
    /\ pc = "check"
    /\ isfile(files[idx])
    /\ IF idx < Len(files)
       THEN idx' = idx + 1 /\ pc' = pc
       ELSE idx' = 1 /\ pc' = "parse"
    /\ UNCHANGED <<files, fs, report_type, all_employees, parsed, table,
                   executed, gen, stdout, ret>>

\* a check that reports the missing file and goes on
CheckFileMissing_goes_on ==
    /\ pc = "check"
    /\ ~isfile(files[idx])
    /\ stdout' = Append(stdout, ERROR \o FILE_NOT_FOUND \o files[idx])
    /\ IF idx < Len(files)
       THEN idx' = idx + 1 /\ pc' = pc
       ELSE idx' = 1 /\ pc' = "parse"
    /\ UNCHANGED <<files, fs, report_type, all_employees, parsed, table,
                   executed, gen, ret>>

CheckFileMissing ==
    /\ pc = "check"
    /\ ~isfile(files[idx])
    /\ stdout' = Append(stdout, ERROR \o FILE_NOT_FOUND \o files[idx])
    /\ ret' = <<1>>
    /\ pc' = "done"
    /\ UNCHANGED <<files, fs, report_type, idx, all_employees, parsed,
                   table, executed, gen>>

\* all_employees.extend(parse_csv_to_dicts(file_path))
ParseFile ==
    /\ pc = "parse"
    /\ table' = read_csv(fs[files[idx]].text)
    /\ all_employees' = all_employees \o parse_csv_to_dicts(fs[files[idx]].text)
    /\ parsed' = Append(parsed, files[idx])
    /\ IF idx < Len(files)
       THEN idx' = idx + 1 /\ pc' = pc
       ELSE idx' = 1 /\ pc' = "select"
    /\ UNCHANGED <<files, fs, report_type, executed, gen, stdout, ret>>

\* report_generator = get_report_generator(args.report)
SelectReport ==
    /\ pc = "select"
    /\ get_report_generator(report_type).raised = ""
    /\ pc' = "generate"
    /\ UNCHANGED <<files, fs, report_type, idx, all_employees, parsed,
                   table, executed, gen, stdout, ret>>

\* except ValueError as e: print(f"Error: {e}"); return 1
SelectReportFails ==
    /\ pc = "select"
    /\ get_report_generator(report_type).raised = "ValueError"
    /\ stdout' = Append(stdout, ERROR \o get_report_generator(report_type).message)
    /\ ret' = <<1>>
    /\ pc' = "done"
    /\ UNCHANGED <<files, fs, report_type, idx, all_employees, parsed,
                   table, executed, gen>>

\* report = report_generator(all_employees); print(report); return 0
RunReport ==
    /\ pc = "generate"
    /\ executed' = Append(executed, get_report_generator(report_type).fn)
    /\ gen' = payout_report(all_employees)
    /\ stdout' = Append(stdout, gen'.report)
    /\ ret' = <<0>>
    /\ pc' = "done"
    /\ UNCHANGED <<files, fs, report_type, idx, all_employees, parsed,
                   table>>

Next ==
    \/ CheckFile
    \/ CheckFileMissing
    \/ ParseFile
    \/ SelectReport
    \/ SelectReportFails
    \/ RunReport

-----------------------------------------------------------------------------
(* Inputs *)

SeqsUpTo(S, n) == UNION {[1..k -> S] : k \in 0..n}

\* the text of a file with the given header fields and rows of fields
fileText(headers, rows) ==
    join(<<join(headers, COMMA)>>
             \o [i \in 1..Len(rows) |-> join(rows[i], COMMA)], NL)

NoFile == [exists |-> FALSE, text |-> <<>>]
NoTable == [headers |-> <<>>, data |-> <<>>]
NoReport == payout_report(<<>>)

PathA == <<"a", ".", "c", "s", "v">>
PathB == <<"b", ".", "c", "s", "v">>
Paths == {PathA, PathB}

BOGUS == <<"b", "o", "g", "u", "s">>
ReportTypes == {PAYOUT, BOGUS}

\* main: up to MaxFiles arguments over two paths, each listed path missing,
\* empty or a file of one of two tables with up to MaxMainRows of its rows
MaxFiles == 2
MaxMainRows == 2

DeptIT == <<"I", "T">>
DeptLower == <<"a">>

MainTables ==
    {[headers |-> <<DEPARTMENT, RATE>>,
      rows |-> {<<DeptIT, <<"1">>>>, <<DeptIT, <<"2">>>>,
                <<DeptLower, <<"1">>>>}],
     [headers |-> <<SALARY>>,
      rows |-> {<<<<"3">>>>}]}
MainTexts ==
    {<<>>}
    \cup UNION {{fileText(t.headers, r) :
                    r \in SeqsUpTo(t.rows, MaxMainRows)} : t \in MainTables}
MainFiles == {NoFile} \cup {[exists |-> TRUE, text |-> t] : t \in MainTexts}

Init ==
    /\ files \in SeqsUpTo(Paths, MaxFiles) \ {<<>>}
    /\ fs \in [Paths -> MainFiles]
    /\ \A p \in Paths : (\A i \in 1..Len(files) : files[i] # p) => fs[p] = NoFile
    /\ report_type \in ReportTypes
    /\ pc = "check"
    /\ idx = 1
    /\ all_employees = <<>>
    /\ parsed = <<>>
    /\ table = NoTable
    /\ executed = <<>>
    /\ gen = NoReport
    /\ stdout = <<>>
    /\ ret = <<>>

Spec == Init /\ [][Next]_vars

\* parse_csv_to_dicts alone: one existing file, its header one of
\* ParseHeaderRows, with up to MaxRows further lines of one field up to one
\* field more than the header has; a line of one empty field is a blank line
MaxRows == 2

ParseHeaderRows ==
    {<<DEPARTMENT>>, <<SALARY>>, <<HOURS_WORKED>>,
     <<DEPARTMENT, HOURS_WORKED>>, <<RATE, SALARY>>,
     <<HOURLY_RATE, DEPARTMENT>>, <<DEPARTMENT, DEPARTMENT>>}
ParseFields == {<<>>, <<"7">>, <<"x">>}
ParseRows(h) == SeqsUpTo(ParseFields, Len(h) + 1) \ {<<>>}

InitParse ==
    /\ files = <<PathA>>
    /\ \/ \E t \in {<<>>, <<NL>>} :
              fs = [p \in Paths |->
                       IF p = PathA THEN [exists |-> TRUE, text |-> t]
                       ELSE NoFile]
       \/ \E h \in ParseHeaderRows :
              \E r \in SeqsUpTo(ParseRows(h), MaxRows) :
                  fs = [p \in Paths |->
                           IF p = PathA
                           THEN [exists |-> TRUE, text |-> fileText(h, r)]
                           ELSE NoFile]
    /\ report_type = PAYOUT
    /\ pc = "parse"
    /\ idx = 1
    /\ all_employees = <<>>
    /\ parsed = <<>>
    /\ table = NoTable
    /\ executed = <<>>
    /\ gen = NoReport
    /\ stdout = <<>>
    /\ ret = <<>>

NextParse == ParseFile

SpecParse == InitParse /\ [][NextParse]_vars

\* generate_payout_report alone: up to MaxRecords records, each with or
\* without a department, hours and a rate, or a named one
MaxRecords == 3

Names == {<<"A", "l">>}
DeptI == <<"I">>
Depts == {DeptI, DeptIT, DeptLower}
Hours == {3}
Rates == {5}

\* the dict with a key for every field given as a one-element set
record(n, d, h, r) ==
    LET keys == (IF n = {} THEN {} ELSE {NAME})
                \cup (IF d = {} THEN {} ELSE {DEPARTMENT})
                \cup (IF h = {} THEN {} ELSE {HOURS_WORKED})
                \cup (IF r = {} THEN {} ELSE {HOURLY_RATE})
    IN  [k \in keys |->
            IF k = NAME THEN [str |-> CHOOSE x \in n : TRUE]
            ELSE IF k = DEPARTMENT THEN [str |-> CHOOSE x \in d : TRUE]
            ELSE IF k = HOURS_WORKED THEN [num |-> CHOOSE x \in h : TRUE]
            ELSE [num |-> CHOOSE x \in r : TRUE]]

Optional(S) == {{}} \cup {{x} : x \in S}

Records ==
    {record({}, d, h, r) : d \in Optional(Depts), h \in Optional(Hours),
                           r \in Optional(Rates)}
    \cup {record({n}, {DeptIT}, {2}, {7}) : n \in Names}

InitReport ==
    /\ files = <<PathA>>
    /\ fs = [p \in Paths |-> NoFile]
    /\ report_type = PAYOUT
    /\ pc = "generate"
    /\ idx = 1
    /\ all_employees \in SeqsUpTo(Records, MaxRecords)
    /\ parsed = <<>>
    /\ table = NoTable
    /\ executed = <<>>
    /\ gen = NoReport
    /\ stdout = <<>>
    /\ ret = <<>>

NextReport == RunReport

SpecReport == InitReport /\ [][NextReport]_vars

-----------------------------------------------------------------------------
(* Properties *)

Aliases == {HOURLY_RATE, RATE, SALARY}
NumericFields == {HOURS_WORKED, HOURLY_RATE}

RECURSIVE SeqSum(_)
SeqSum(s) == IF s = <<>> THEN 0 ELSE Head(s) + SeqSum(Tail(s))

RECURSIVE Concat(_)
Concat(ss) == IF ss = <<>> THEN <<>> ELSE Head(ss) \o Concat(Tail(ss))

Count(s, x) == Cardinality({i \in 1..Len(s) : s[i] = x})

AnyMissing == \E i \in 1..Len(files) : ~fs[files[i]].exists
FirstMissing ==
    files[CHOOSE i \in 1..Len(files) :
              /\ ~fs[files[i]].exists
              /\ \A j \in 1..(i - 1) : fs[files[j]].exists]

\* the rows of the last table read that are as wide as its header
MatchingRows ==
    LET Wide(row) == Len(row) = Len(table.headers)
    IN  SelectSeq(table.data, Wide)

\* the columns of the last table read that no column to their right shares
\* the normalized name with
LastOfName(i) ==
    \A j \in (i + 1)..Len(table.headers) :
        normalize_header(table.headers[j]) # normalize_header(table.headers[i])

IsDecimal(v) == v # <<>> /\ \A i \in 1..Len(v) : v[i] \in Digits

\* C1: when a listed path does not exist, main parses no file and runs no
\* report, and it ends having printed only "Error: File not found: <path>"
\* for the first missing path, with exit code 1
C1_MissingFileAborts ==
    AnyMissing =>
        /\ pc \in {"check", "done"}
        /\ parsed = <<>>
        /\ all_employees = <<>>
        /\ executed = <<>>
        /\ pc = "done" =>
               /\ stdout = <<ERROR \o FILE_NOT_FOUND \o FirstMissing>>
               /\ ret = <<1>>

C1_Witness ==
    /\ pc = "done"
    /\ Len(files) = 2
    /\ fs[files[1]].exists
    /\ fs[files[1]].text # <<>>
    /\ ~fs[files[2]].exists
    /\ ret = <<1>>

\* C2: an unregistered report type makes the lookup raise the error naming
\* it, no report function runs, and main ends having printed
\* "Error: Unknown report type: <name>" with exit code 1; "payout" selects
\* generate_payout_report
C2_UnknownReportType ==
    /\ report_type # PAYOUT =>
           /\ get_report_generator(report_type).raised = "ValueError"
           /\ get_report_generator(report_type).message
                  = UNKNOWN_REPORT \o report_type
           /\ executed = <<>>
           /\ pc # "generate"
           /\ (pc = "done" /\ ~AnyMissing) =>
                  /\ stdout = <<ERROR \o UNKNOWN_REPORT \o report_type>>
                  /\ ret = <<1>>
    /\ report_type = PAYOUT =>
           /\ get_report_generator(report_type)
                  = [raised |-> "", fn |-> "generate_payout_report"]
           /\ (pc = "done" /\ ~AnyMissing) =>
                  /\ executed = <<"generate_payout_report">>
                  /\ ret = <<0>>

C2_Witness ==
    /\ pc = "done"
    /\ report_type = BOGUS
    /\ all_employees # <<>>
    /\ stdout = <<ERROR \o UNKNOWN_REPORT \o BOGUS>>

\* C3: parse_csv_to_dicts yields one record for every row as wide as the
\* header and none for any other row, in the order of the rows
C3_RowWidthFilter ==
    pc = "select" =>
        /\ Len(all_employees) = Len(MatchingRows)
        /\ \A k \in 1..Len(MatchingRows) :
               \A i \in 1..Len(table.headers) :
                   LET key == normalize_header(table.headers[i])
                   IN  LastOfName(i) =>
                           /\ key \in DOMAIN all_employees[k]
                           /\ all_employees[k][key]
                                  = cell(key, MatchingRows[k][i])

C3_Witness ==
    /\ pc = "select"
    /\ Len(table.data) = 2
    /\ Len(table.data[1]) # Len(table.headers)
    /\ Len(table.data[2]) = Len(table.headers)
    /\ Len(all_employees) = 1

\* C4: reading an empty file gives the empty table, no headers and no rows
C4_EmptyFileEmptyTable ==
    (pc = "select" /\ fs[PathA].text = <<>>) =>
        table = [headers |-> <<>>, data |-> <<>>]

\* headers that are, and that only resemble, the three rate spellings
HeaderSamples ==
    Aliases
    \cup {DEPARTMENT, HOURS_WORKED, NAME, <<>>, <<"R", "a", "t", "e">>,
          <<SP, "r", "a", "t", "e">>, <<"r", "a", "t", "e", "s">>,
          <<"h", "o", "u", "r", "l", "y">>}

\* the header fields of the file at a path
HeadersOf(p) ==
    LET h == read_csv(fs[p].text).headers
    IN  {h[i] : i \in 1..Len(h)}

\* C5: a header normalizes to hourly_rate exactly when it is hourly_rate,
\* rate or salary, any other header is unchanged, normalizing twice is
\* normalizing once; no record of the merged sequence has the key rate or
\* salary, and all have hourly_rate when every parsed file has a rate column
C5_UniformRateKey ==
    /\ \A h \in HeaderSamples
                  \cup UNION {HeadersOf(parsed[n]) : n \in 1..Len(parsed)} :
           /\ normalize_header(h) = HOURLY_RATE <=> h \in Aliases
           /\ h \notin Aliases => normalize_header(h) = h
           /\ normalize_header(normalize_header(h)) = normalize_header(h)
    /\ \A k \in 1..Len(all_employees) :
           /\ RATE \notin DOMAIN all_employees[k]
           /\ SALARY \notin DOMAIN all_employees[k]
    /\ (\A n \in 1..Len(parsed) : HeadersOf(parsed[n]) \cap Aliases # {})
           => \A k \in 1..Len(all_employees) :
                  HOURLY_RATE \in DOMAIN all_employees[k]

C5_Witness ==
    /\ pc = "done"
    /\ parsed = <<PathA, PathB>>
    /\ read_csv(fs[PathA].text).headers = <<DEPARTMENT, RATE>>
    /\ read_csv(fs[PathB].text).headers = <<SALARY>>
    /\ Len(all_employees) = 4
    /\ \A k \in 1..4 : HOURLY_RATE \in DOMAIN all_employees[k]

NumOr0(e, key) == IF key \in DOMAIN e THEN e[key].num ELSE 0
DeptKey(e) == IF DEPARTMENT \in DOMAIN e THEN e[DEPARTMENT].str ELSE UNKNOWN

\* C6: for a non-empty record sequence the grand totals are the sums of the
\* department subtotals, the grand total payout is the sum of hours times
\* rate over all records, and every record is counted in exactly one
\* department, the one of its key
C6_GrandTotals ==
    (pc = "done" /\ all_employees # <<>>) =>
        LET secs == gen.sections
        IN  /\ gen.grand_total_hours
                   = SeqSum([i \in 1..Len(secs) |-> secs[i].dept_total_hours])
            /\ gen.grand_total_payout
                   = SeqSum([i \in 1..Len(secs) |-> secs[i].dept_total_payout])
            /\ gen.grand_total_payout
                   = SeqSum([k \in 1..Len(all_employees) |->
                                NumOr0(all_employees[k], HOURS_WORKED)
                                * NumOr0(all_employees[k], HOURLY_RATE)])
            /\ gen.grand_total_hours
                   = SeqSum([k \in 1..Len(all_employees) |->
                                NumOr0(all_employees[k], HOURS_WORKED)])
            /\ \A i \in 1..Len(secs) :
                   /\ secs[i].dept_total_hours
                          = SeqSum([k \in 1..Len(secs[i].employees) |->
                                       NumOr0(secs[i].employees[k],
                                              HOURS_WORKED)])
                   /\ secs[i].dept_total_payout
                          = SeqSum([k \in 1..Len(secs[i].employees) |->
                                       NumOr0(secs[i].employees[k],
                                              HOURS_WORKED)
                                       * NumOr0(secs[i].employees[k],
                                                HOURLY_RATE)])
                   /\ \A k \in 1..Len(secs[i].employees) :
                          DeptKey(secs[i].employees[k]) = secs[i].dept
            /\ \A i, j \in 1..Len(secs) : i # j => secs[i].dept # secs[j].dept
            /\ \A k \in 1..Len(all_employees) :
                   Count(all_employees, all_employees[k])
                       = SeqSum([i \in 1..Len(secs) |->
                                    Count(secs[i].employees,
                                          all_employees[k])])
            /\ SeqSum([i \in 1..Len(secs) |-> Len(secs[i].employees)])
                   = Len(all_employees)

C6_Witness ==
    /\ pc = "done"
    /\ Len(all_employees) = 3
    /\ Len(gen.sections) = 2
    /\ gen.grand_total_payout = 30
    /\ gen.grand_total_hours = 9

\* the records in arrival order: file argument order, then row order
Arrival ==
    Concat([i \in 1..Len(files) |-> parse_csv_to_dicts(fs[files[i]].text)])

\* the index in report_lines of the department line of section i
RECURSIVE DeptLineAt(_)
DeptLineAt(i) ==
    IF i = 1 THEN 2
    ELSE DeptLineAt(i - 1) + Len(gen.sections[i - 1].employees) + 2

\* C7: the department sections of the report are in ascending order of the
\* department key ("IT" before "Unknown" before "a"), one per key, and the
\* employee lines of a section are the records of that key in arrival
\* order: file order, then row order
C7_SectionOrder ==
    (pc = "done" /\ ret = <<0>> /\ all_employees # <<>>) =>
        LET secs == gen.sections
            arrival == Arrival
        IN  /\ all_employees = arrival
            /\ \A i, j \in 1..Len(secs) :
                   i < j => strLess(secs[i].dept, secs[j].dept)
            /\ \A i, j \in 1..Len(secs) :
                   (\/ secs[i].dept = DeptIT /\ secs[j].dept = UNKNOWN
                    \/ secs[i].dept = DeptIT /\ secs[j].dept = DeptLower
                    \/ secs[i].dept = UNKNOWN /\ secs[j].dept = DeptLower)
                       => i < j
            /\ {secs[i].dept : i \in 1..Len(secs)}
                   = {DeptKey(arrival[k]) : k \in 1..Len(arrival)}
            /\ \A i \in 1..Len(secs) :
                   LET InDept(e) == DeptKey(e) = secs[i].dept
                       at == DeptLineAt(i)
                   IN  /\ secs[i].employees = SelectSeq(arrival, InDept)
                       /\ gen.report_lines[at] = secs[i].dept
                       /\ \A k \in 1..Len(secs[i].employees) :
                              gen.report_lines[at + k]
                                  = employeeLine(secs[i].employees[k])
            /\ Len(gen.report_lines) = DeptLineAt(Len(secs) + 1) + 1
            /\ stdout = <<join(gen.report_lines, NL)>>

C7_Witness ==
    /\ pc = "done"
    /\ ret = <<0>>
    /\ files = <<PathB, PathA>>
    /\ Len(all_employees) = 4
    /\ DeptKey(all_employees[1]) = DeptLower
    /\ DeptKey(all_employees[2]) = DeptIT
    /\ DeptKey(all_employees[3]) = DeptIT
    /\ DeptKey(all_employees[4]) = DeptLower
    /\ all_employees[2][HOURLY_RATE].num = 2
    /\ all_employees[3][HOURLY_RATE].num = 1
    /\ Len(gen.sections) = 2
    /\ gen.sections[1].employees = <<all_employees[2], all_employees[3]>>
    /\ gen.sections[2].dept = DeptLower

\* C8: a value that is no number in an hours_worked or hourly_rate column is
\* stored as the number 0 and the row is kept; a value in any other column
\* is stored as the string it is
C8_NumericDefault ==
    pc = "select" =>
        /\ Len(all_employees) = Len(MatchingRows)
        /\ \A k \in 1..Len(MatchingRows) :
               \A i \in 1..Len(table.headers) :
                   LET key == normalize_header(table.headers[i])
                       value == MatchingRows[k][i]
                   IN  LastOfName(i) =>
                           /\ (key \in NumericFields /\ ~IsDecimal(value))
                                  => all_employees[k][key] = [num |-> 0]
                           /\ key \notin NumericFields
                                  => all_employees[k][key] = [str |-> value]

C8_Witness ==
    /\ pc = "select"
    /\ table.headers = <<DEPARTMENT, HOURS_WORKED>>
    /\ table.data = <<<<<<"7">>, <<"x">>>>, <<<<"x">>, <<>>>>>>
    /\ all_employees
           = <<[k \in {DEPARTMENT, HOURS_WORKED} |->
                   IF k = DEPARTMENT THEN [str |-> <<"7">>] ELSE [num |-> 0]],
               [k \in {DEPARTMENT, HOURS_WORKED} |->
                   IF k = DEPARTMENT THEN [str |-> <<"x">>] ELSE [num |-> 0]]>>

ExpectedHeader ==
    <<"n", "a", "m", "e", " ", " ", " ", " ", " ", " ", " ", " ", " ", " ",
      " ", " ", " ", " ", " ", " ", " ", " ", " ", " ", " ", " ", " ", " ",
      " ", " ", " ", " ", " ", " ", "h", "o", "u", "r", "s", " ", " ", " ",
      " ", " ", "r", "a", "t", "e", " ", " ", " ", " ", " ", "p", "a", "y",
      "o", "u", "t">>

\* C9: for no records the report is exactly "No data available for
\* report.", returned and printed as a normal result; for some records it
\* begins with the header line and ends with the two grand-total lines
C9_EmptyAndFrame ==
    pc = "done" =>
        /\ stdout = <<gen.report>>
        /\ ret = <<0>>
        /\ all_employees = <<>> => gen.report = NO_DATA
        /\ all_employees # <<>> =>
               LET lines == split(gen.report, NL)
                   n == Len(lines)
               IN  /\ n >= 7
                   /\ lines[1] = ExpectedHeader
                   /\ lines[n - 2] = <<>>
                   /\ lines[n - 1]
                          = SubSeq(TOTAL_HOURS, 2, Len(TOTAL_HOURS))
                            \o fmt0f(SeqSum([k \in 1..Len(all_employees) |->
                                   NumOr0(all_employees[k], HOURS_WORKED)]))
                   /\ lines[n]
                          = TOTAL_PAYOUT
                            \o fmt0f(SeqSum([k \in 1..Len(all_employees) |->
                                   NumOr0(all_employees[k], HOURS_WORKED)
                                   * NumOr0(all_employees[k], HOURLY_RATE)]))

C9_Witness ==
    /\ pc = "done"
    /\ all_employees = <<>>
    /\ gen.report = NO_DATA
    /\ stdout = <<NO_DATA>>
    /\ executed = <<"generate_payout_report">>

\* some two columns of the last table read share their normalized name
SharedName ==
    \E i, j \in 1..Len(table.headers) :
        /\ i < j
        /\ normalize_header(table.headers[i])
               = normalize_header(table.headers[j])

\* C10: when header columns share a normalized name, every row as wide as
\* the header still yields one record, which holds the name once with the
\* value of the rightmost of those columns and so has fewer fields than the
\* row has values
C10_RightmostColumnWins ==
    (pc = "select" /\ SharedName) =>
        /\ Len(all_employees) = Len(MatchingRows)
        /\ \A k \in 1..Len(MatchingRows) :
               /\ Cardinality(DOMAIN all_employees[k]) < Len(MatchingRows[k])
               /\ DOMAIN all_employees[k]
                      = {normalize_header(table.headers[i]) :
                            i \in 1..Len(table.headers)}
               /\ \A i \in 1..Len(table.headers) :
                      LastOfName(i) =>
                          all_employees[k][normalize_header(table.headers[i])]
                              = cell(normalize_header(table.headers[i]),
                                     MatchingRows[k][i])

C10_Witness ==
    /\ pc = "select"
    /\ table.headers = <<RATE, SALARY>>
    /\ table.data = <<<<<<"x">>, <<"7">>>>>>
    /\ all_employees = <<[k \in {HOURLY_RATE} |-> [num |-> 7]]>>

=============================================================================
